---------------------------- MODULE Spec2Model ----------------------------
(***************************************************************************)
(* Storage-layout resolver of src/src/solidity/decodeInfo.js.              *)
(*                                                                         *)
(* A type string is modelled as the sequence of its lexemes: a keyword or  *)
(* identifier ("uint", "struct", "S"), a run of decimal digits ("256"),    *)
(* a bracket ("[", "]") or a single space (" ").  The JavaScript string    *)
(* is the concatenation of the lexemes (Join).  JavaScript numbers that    *)
(* the resolver computes are non-negative integers, NaN or Infinity; NaN   *)
(* and Infinity are kept as distinct values with JavaScript's arithmetic.  *)
(* A thrown exception is a result value that every caller passes on.       *)
(***************************************************************************)
EXTENDS Integers, Sequences, FiniteSets, TLC

VARIABLES type, stateDefinitions, result, pc

vars == <<type, stateDefinitions, result, pc>>

(***************************************************************************)
(* Bounds of the model.                                                    *)
(***************************************************************************)
\* largest literal size N of a generated fixed array <T>[<N>]
MaxArraySize == 3
\* largest number of members of a generated struct declaration
MaxMembers == 3
\* number of nested parseType activations the engine's call stack holds
MaxCallDepth == 10

(***************************************************************************)
(* JavaScript values.                                                      *)
(***************************************************************************)
\* the number NaN (parseInt of a string with no leading digits)
NaN == -1
\* the number Infinity (32 / 0)
Infinity == -2
\* the string 'dynamic' stored in arraySize
dynamic == -3

null == [null |-> TRUE]
\* calling decodeInfos[currentType] when it is undefined
TypeError == [throws |-> "TypeError"]
\* the call stack is exhausted (Maximum call stack size exceeded)
RangeError == [throws |-> "RangeError"]

IsThrow(r) == "throws" \in DOMAIN r
IsDescriptor(r) == "typeName" \in DOMAIN r

(***************************************************************************)
(* Strings as lexeme sequences.                                            *)
(***************************************************************************)
Numerals == 0 .. 256
DigitRuns == {ToString(n) : n \in Numerals}
IsDigits(tok) == tok \in DigitRuns

RECURSIVE Join(_)
Join(s) == IF s = <<>> THEN "" ELSE Head(s) \o Join(Tail(s))

\* String.prototype.indexOf, 0-based, -1 when absent
indexOf(s, tok) ==
    IF \E i \in 1 .. Len(s) : s[i] = tok
    THEN (CHOOSE i \in 1 .. Len(s) : s[i] = tok /\ \A j \in 1 .. i - 1 : s[j] # tok) - 1
    ELSE -1

\* s.replace(tok, ''): the first occurrence only
replaceFirst(s, tok) ==
    LET i == indexOf(s, tok)
    IN IF i = -1 THEN s ELSE SubSeq(s, 1, i) \o SubSeq(s, i + 2, Len(s))

\* s.replace(/[0-9]+/g, char)
RECURSIVE replaceDigits(_, _)
replaceDigits(s, char) ==
    IF s = <<>> THEN <<>>
    ELSE (IF IsDigits(Head(s)) THEN char ELSE <<Head(s)>>) \o replaceDigits(Tail(s), char)

\* parseInt: leading white space is skipped, then a leading digit run is read
RECURSIVE parseInt(_)
parseInt(s) ==
    IF s = <<>> THEN NaN
    ELSE IF Head(s) = " " THEN parseInt(Tail(s))
    ELSE IF IsDigits(Head(s)) THEN CHOOSE n \in Numerals : ToString(n) = Head(s)
    ELSE NaN

\* the alternatives of ( storage ref| storage pointer| memory| calldata)
Qualifiers ==
    { <<" ", "storage", " ", "ref">>, <<" ", "storage", " ", "pointer">>,
      <<" ", "memory">>, <<" ", "calldata">> }

\* ( storage ref| storage pointer| memory| calldata)?$ matches after position j
IsTail(s, j) == SubSeq(s, j + 1, Len(s)) \in Qualifiers \cup {<<>>}

(***************************************************************************)
(* JavaScript arithmetic on the values above.                              *)
(***************************************************************************)
\* x / 8 (the bit widths of the model are multiples of 8, so the quotient is exact)
DivBy8(x) == IF x = NaN THEN NaN ELSE x \div 8

\* x < 32: false for NaN
LessThan32(x) == x # NaN /\ x < 32

\* Math.floor(32 / x) for a number x < 32
FloorOf32Over(x) == IF x = 0 THEN Infinity ELSE 32 \div x

\* Math.ceil(a / b) for b = Infinity or b >= 1
CeilDiv(a, b) ==
    IF a = NaN THEN NaN
    ELSE IF b = Infinity THEN 0
    ELSE (a + b - 1) \div b

Times(a, b) == IF a = NaN \/ b = NaN THEN NaN ELSE a * b

Plus(a, b) == IF a = NaN \/ b = NaN THEN NaN ELSE a + b

(***************************************************************************)
(* Type classifier.                                                        *)
(***************************************************************************)
\* faulty variant: the opening bracket is looked for instead of the closing one
typeClass_open(fullType) ==
    IF indexOf(fullType, "[") # -1 THEN "array"
    ELSE LET word == IF indexOf(fullType, " ") # -1
                     THEN SubSeq(fullType, 1, indexOf(fullType, " "))
                     ELSE fullType
             char == IF indexOf(word, "bytes") = 0 THEN <<"X">> ELSE <<>>
         IN Join(replaceDigits(word, char))

typeClass(fullType) ==
    IF indexOf(fullType, "]") # -1 THEN "array"
    ELSE LET word == IF indexOf(fullType, " ") # -1
                     THEN SubSeq(fullType, 1, indexOf(fullType, " "))
                     ELSE fullType
             char == IF indexOf(word, "bytes") = 0 THEN <<"X">> ELSE <<>>
         IN Join(replaceDigits(word, char))

\* the keys of the dispatch table decodeInfos
decodeInfos ==
    {"address", "array", "bool", "bytes", "bytesX", "enum", "string", "struct", "int", "uint"}

(***************************************************************************)
(* Scalar builders.                                                        *)
(***************************************************************************)
\* line 21 evaluates an expression and discards it: type is unchanged
Uint(t) ==
    [storageSlots |-> 1, storageBytes |-> DivBy8(parseInt(replaceFirst(t, "uint"))),
     typeName |-> "uint"]

IntBuilder(t) ==
    [storageSlots |-> 1, storageBytes |-> DivBy8(parseInt(replaceFirst(t, "int"))),
     typeName |-> "int"]

Address(t) == [storageSlots |-> 1, storageBytes |-> 20, typeName |-> "address"]

Bool(t) == [storageSlots |-> 1, storageBytes |-> 1, typeName |-> "bool"]

DynamicByteArray(t) == [storageSlots |-> 1, storageBytes |-> 32, typeName |-> "bytes"]

FixedByteArray(t) ==
    [storageSlots |-> 1, storageBytes |-> parseInt(replaceFirst(t, "bytes")),
     typeName |-> "bytesX"]

String(t) == [storageSlots |-> 1, storageBytes |-> 32, typeName |-> "string"]

(***************************************************************************)
(* Pattern matches of the composite builders.                              *)
(***************************************************************************)
\* type.match(/(.*)\[(.*?)\]( storage ref| storage pointer| memory| calldata)?$/):
\* the greedy (.*) ends at the last "[" after which the rest can match, the
\* lazy (.*?) at the first "]" that is followed by an optional qualifier and
\* the end of the string
ArrayMatch(t) ==
    LET closes(i) == {j \in i + 1 .. Len(t) : t[j] = "]" /\ IsTail(t, j)}
        opens == {i \in 1 .. Len(t) : t[i] = "[" /\ closes(i) # {}}
    IN IF opens = {} THEN [matched |-> FALSE, m1 |-> <<>>, m2 |-> <<>>]
       ELSE LET i == CHOOSE x \in opens : \A y \in opens : y <= x
                j == CHOOSE x \in closes(i) : \A y \in closes(i) : x <= y
            IN [matched |-> TRUE, m1 |-> SubSeq(t, 1, i - 1), m2 |-> SubSeq(t, i + 1, j - 1)]

\* type.match(/struct (.*?)( storage ref| storage pointer| memory| calldata)?$/):
\* the leftmost "struct " starts the match, the lazy (.*?) is the rest of the
\* string without one trailing qualifier
StructMatch(t) ==
    LET starts == {i \in 1 .. Len(t) - 1 : t[i] = "struct" /\ t[i + 1] = " "}
    IN IF starts = {} THEN [matched |-> FALSE, m1 |-> <<>>]
       ELSE LET i == CHOOSE x \in starts : \A y \in starts : x <= y
                ends == {j \in i + 1 .. Len(t) : IsTail(t, j)}
                j == CHOOSE x \in ends : \A y \in ends : x <= y
            IN [matched |-> TRUE, m1 |-> SubSeq(t, i + 2, j)]

(***************************************************************************)
(* Symbol table accessors and composite builders.  A declaration is        *)
(* [name, attributes.name, children]; children.length is the number of     *)
(* child nodes and children.items the member nodes of a struct (the value  *)
(* nodes of an enum are never read, only counted).  The table is the       *)
(* sequence of its declarations in the order for-in visits them.           *)
(***************************************************************************)
RECURSIVE parseType(_, _, _)

\* the first declaration whose attributes.name is the type without "enum "
getEnum(t, defs) ==
    LET hits == {k \in 1 .. Len(defs) : Join(t) = "enum " \o defs[k].attributes.name}
    IN IF hits = {} THEN null
       ELSE defs[CHOOSE k \in hits : \A h \in hits : k <= h]

\* while (length > 1) { length = length / 256; storageBytes++ }, the running
\* value kept exactly as the fraction num / den
RECURSIVE EnumWidth(_, _, _)

\* faulty variant: the running value is divided with integer division
RECURSIVE EnumWidth_intdiv(_, _, _)
EnumWidth_intdiv(num, den, storageBytes) ==
    IF num \div den > 1 THEN EnumWidth_intdiv(num, den * 256, storageBytes + 1)
    ELSE storageBytes

EnumWidth(num, den, storageBytes) ==
    IF num > den THEN EnumWidth(num, den * 256, storageBytes + 1) ELSE storageBytes

Enum(t, defs) ==
    LET enumDef == getEnum(t, defs)
    IN IF enumDef = null THEN null
       ELSE [storageSlots |-> 1,
             storageBytes |-> EnumWidth(enumDef.children.length, 1, 0),
             typeName |-> "enum", enum |-> enumDef]

\* the loop over dec.children of getStructMembers, from member i on
RECURSIVE structMembersLoop(_, _, _, _, _, _)

\* faulty variant: a member that does not resolve is skipped instead of ending the loop
structMembersLoop_skip(dec, defs, i, members, storageBytes, depth) ==
    IF i > dec.children.length THEN [members |-> members, storageBytes |-> storageBytes]
    ELSE LET decoded == parseType(dec.children.items[i].attributes.type, defs, depth + 1)
         IN IF IsThrow(decoded) THEN decoded
            ELSE IF decoded = null
                 THEN structMembersLoop(dec, defs, i + 1, members, storageBytes, depth)
            ELSE structMembersLoop(dec, defs, i + 1, Append(members, decoded),
                                   Plus(storageBytes, decoded.storageBytes), depth)

structMembersLoop(dec, defs, i, members, storageBytes, depth) ==
    IF i > dec.children.length THEN [members |-> members, storageBytes |-> storageBytes]
    ELSE LET decoded == parseType(dec.children.items[i].attributes.type, defs, depth + 1)
         IN IF IsThrow(decoded) THEN decoded
            ELSE IF decoded = null THEN null
            ELSE structMembersLoop(dec, defs, i + 1, Append(members, decoded),
                                   Plus(storageBytes, decoded.storageBytes), depth)

getStructMembers(typeName, defs, depth) ==
    LET hits == {k \in 1 .. Len(defs) :
                    /\ defs[k].name = "StructDefinition"
                    /\ Join(typeName) = defs[k].attributes.name}
    IN IF hits = {} THEN [members |-> <<>>, storageBytes |-> 0]
       ELSE structMembersLoop(defs[CHOOSE k \in hits : \A h \in hits : k <= h],
                              defs, 1, <<>>, 0, depth)

\* faulty variant: the struct's slots are the sum of its members' slots
Struct_sumSlots(t, defs, depth) ==
    LET match == StructMatch(t)
    IN IF ~match.matched THEN null
       ELSE LET memberDetails == getStructMembers(match.m1, defs, depth)
                RECURSIVE slots(_)
                slots(ms) == IF ms = <<>> THEN 0 ELSE Plus(Head(ms).storageSlots, slots(Tail(ms)))
            IN IF IsThrow(memberDetails) THEN memberDetails
               ELSE IF memberDetails = null THEN null
               ELSE [storageSlots |-> slots(memberDetails.members),
                     storageBytes |-> 32,
                     typeName |-> "struct",
                     members |-> memberDetails.members]

Struct(t, defs, depth) ==
    LET match == StructMatch(t)
    IN IF ~match.matched THEN null
       ELSE LET memberDetails == getStructMembers(match.m1, defs, depth)
            IN IF IsThrow(memberDetails) THEN memberDetails
               ELSE IF memberDetails = null THEN null
               ELSE [storageSlots |-> CeilDiv(memberDetails.storageBytes, 32),
                     storageBytes |-> 32,
                     typeName |-> "struct",
                     members |-> memberDetails.members]

\* faulty variant: the slots of a packed fixed array are rounded down, and a full-slot
\* element counts as one slot
arrayStorageSlots_floor(arraySize, underlyingType) ==
    IF arraySize = dynamic THEN 1
    ELSE IF LessThan32(underlyingType.storageBytes)
         THEN IF arraySize = NaN THEN NaN
              ELSE IF underlyingType.storageBytes = 0 THEN 0
              ELSE arraySize \div FloorOf32Over(underlyingType.storageBytes)
         ELSE arraySize

\* lines 144-154 of Array: the slots of the array
arrayStorageSlots(arraySize, underlyingType) ==
    IF arraySize = dynamic THEN 1
    ELSE IF LessThan32(underlyingType.storageBytes)
         THEN CeilDiv(arraySize, FloorOf32Over(underlyingType.storageBytes))
         ELSE Times(arraySize, underlyingType.storageSlots)

Array(t, defs, depth) ==
    LET match == ArrayMatch(t)
    IN IF ~match.matched THEN null
       ELSE LET arraySize == IF match.m2 = <<>> THEN dynamic ELSE parseInt(match.m2)
                underlyingType == parseType(match.m1, defs, depth + 1)
            IN IF IsThrow(underlyingType) THEN underlyingType
               ELSE IF underlyingType = null THEN null
               ELSE [storageSlots |-> arrayStorageSlots(arraySize, underlyingType),
                     storageBytes |-> 32,
                     typeName |-> "array",
                     arraySize |-> arraySize,
                     underlyingType |-> underlyingType]

(***************************************************************************)
(* Resolver entry point.  depth counts the parseType activations on the    *)
(* call stack; the engine throws RangeError when the stack is exhausted.   *)
(* typeClass returns a string in every case, so the null test of lines     *)
(* 302-305 never succeeds; a class that is no key of the dispatch table    *)
(* makes line 306 call undefined.                                          *)
(***************************************************************************)
parseType(t, defs, depth) ==
    IF depth > MaxCallDepth THEN RangeError
    ELSE LET currentType == typeClass(t)
         IN IF currentType \notin decodeInfos THEN TypeError
            ELSE CASE currentType = "address" -> Address(t)
                   [] currentType = "array" -> Array(t, defs, depth)
                   [] currentType = "bool" -> Bool(t)
                   [] currentType = "bytes" -> DynamicByteArray(t)
                   [] currentType = "bytesX" -> FixedByteArray(t)
                   [] currentType = "enum" -> Enum(t, defs)
                   [] currentType = "string" -> String(t)
                   [] currentType = "struct" -> Struct(t, defs, depth)
                   [] currentType = "int" -> IntBuilder(t)
                   [] currentType = "uint" -> Uint(t)

(***************************************************************************)
(* Inputs: type strings as a compiler's syntax tree gives them, strings    *)
(* outside the grammar, and symbol tables.                                 *)
(***************************************************************************)
StorageRef == <<" ", "storage", " ", "ref">>

ScalarTypes ==
    { <<"address">>, <<"bool">>, <<"string">>, <<"bytes">>,
      <<"uint">>, <<"uint", "8">>, <<"uint", "128">>, <<"uint", "256">>,
      <<"int">>, <<"int", "8">>, <<"int", "256">>,
      <<"bytes", "1">>, <<"bytes", "4">>, <<"bytes", "32">>,
      <<"bytes">> \o StorageRef, <<"string", " ", "memory">>,
      <<"uint", "256", " ", "calldata">> }

NamedTypes ==
    { <<"struct", " ", "S">>, <<"struct", " ", "T">>, <<"struct", " ", "U">>,
      <<"struct", " ", "S">> \o StorageRef,
      <<"struct", " ", "S", " ", "storage", " ", "pointer">>,
      <<"struct", " ", "T", " ", "memory">>,
      <<"enum", " ", "E">>, <<"enum", " ", "F">> }

\* strings of no category of the resolver
UnsupportedTypes ==
    { <<"mapping(", "uint", "256", " ", "=>", " ", "bool", ")">>,
      <<"function", " ", "(", "uint", "256", ")">>,
      <<"contract", " ", "C">> }

\* strings with brackets that are no array, and other malformed shapes
MalformedTypes ==
    { <<"uint", "[">>, <<"uint", "]">>, <<"uint", "256", "[", "2">>,
      <<"uint", "256", "[", "2", "]", "x">>, <<"struct", " ", "S", "[">>,
      <<"enum", " ", "E", "]">>, <<"struct">>, <<"[", "]">>,
      <<"uint", "256", "[", "N", "]">>, <<"bool", "[", "N", "]">> }

BaseTypes == ScalarTypes \cup NamedTypes \cup UnsupportedTypes \cup MalformedTypes

Sizes == {<<>>} \cup {<<ToString(n)>> : n \in 0 .. MaxArraySize}

ArrayOf(S) ==
    {t \o <<"[">> \o sz \o <<"]">> \o q : t \in S, sz \in Sizes, q \in {<<>>, StorageRef}}

InnerTypes ==
    { <<"uint">>, <<"uint", "128">>, <<"uint", "256">>, <<"bool">>,
      <<"struct", " ", "S">>, <<"enum", " ", "E">> }

AllTypes == BaseTypes \cup ArrayOf(BaseTypes) \cup ArrayOf(ArrayOf(InnerTypes))

EnumDec(n, count) ==
    [name |-> "EnumDefinition", attributes |-> [name |-> n],
     children |-> [length |-> count, items |-> <<>>]]

StructDec(n, ts) ==
    [name |-> "StructDefinition", attributes |-> [name |-> n],
     children |-> [length |-> Len(ts),
                   items |-> [i \in 1 .. Len(ts) |-> [attributes |-> [type |-> ts[i]]]]]]

EnumCounts == {1, 2, 3, 255, 256, 257, 300, 65535, 65536, 65537}

EnumTables == {<<EnumDec("E", n)>> : n \in EnumCounts}

MemberTypes ==
    { <<"uint">>, <<"uint", "128">>, <<"uint", "256">>, <<"bool">>, <<"address">>,
      <<"enum", " ", "E">>, <<"enum", " ", "F">> }

MemberLists == UNION {[1 .. n -> MemberTypes] : n \in 1 .. MaxMembers}

StructTables == {<<EnumDec("E", 3), StructDec("S", ms)>> : ms \in MemberLists}

StructTypes ==
    { <<"struct", " ", "S">>, <<"struct", " ", "S">> \o StorageRef,
      <<"struct", " ", "S", "[", "2", "]">>, <<"struct", " ", "S", "[", "]">> }

\* struct Node { uint256 v; Node[] children; }: a struct that contains itself
\* through a dynamic array, which the compiler accepts
RecursiveTables ==
    { <<StructDec("S", << <<"uint", "256">>, <<"struct", " ", "S", "[", "]">> \o StorageRef >>)>>,
      <<StructDec("S", << <<"struct", " ", "T">> >>),
        StructDec("T", << <<"bool">>, <<"struct", " ", "S", "[", "2", "]">> >>)>>,
      <<StructDec("S", << <<"struct", " ", "S">> >>)>> }

CoreTables ==
    { <<>>,
      <<EnumDec("E", 3)>>,
      <<EnumDec("E", 1)>>,
      <<EnumDec("E", 300),
        StructDec("S", << <<"uint", "128">>, <<"uint", "128">>, <<"uint", "128">> >>),
        StructDec("T", << <<"struct", " ", "S">>, <<"struct", " ", "S", "[", "2", "]">>,
                          <<"uint", "8", "[", "2", "]">>, <<"bool">> >>)>>,
      <<StructDec("T", << <<"bool">>, <<"struct", " ", "S">> \o StorageRef >>),
        StructDec("S", << <<"uint", "128">>, <<"uint", "128">> >>)>>,
      <<StructDec("S", << <<"uint", "256">>,
                          <<"mapping(", "uint", "256", " ", "=>", " ", "bool", ")">> >>)>>,
      <<StructDec("T", << <<"bool">>, <<"struct", " ", "S">> >>),
        StructDec("S", << <<"uint", "128">>, <<"enum", " ", "F">> >>)>> }
    \cup RecursiveTables

Inputs ==
    (AllTypes \X CoreTables)
        \cup ({<<"enum", " ", "E">>, <<"enum", " ", "E", "[", "3", "]">>} \X EnumTables)
        \cup (StructTypes \X StructTables)

(***************************************************************************)
(* The state machine: a caller holds a type string and a symbol table and  *)
(* calls parseType once.                                                   *)
(***************************************************************************)
pending == [pending |-> TRUE]

Init ==
    /\ \E in \in Inputs : type = in[1] /\ stateDefinitions = in[2]
    /\ result = pending
    /\ pc = "call"

ParseType ==
    /\ pc = "call"
    /\ result' = parseType(type, stateDefinitions, 1)
    /\ pc' = "done"
    /\ UNCHANGED <<type, stateDefinitions>>

Next == ParseType

Spec == Init /\ [][Next]_vars

(***************************************************************************)
(* Vocabulary of the properties.                                           *)
(***************************************************************************)
Done == pc = "done"

IsFailure(r) == r = null \/ IsThrow(r)

HasBracket(t, b) == \E i \in 1 .. Len(t) : t[i] = b

\* the type string has the shape struct <Name> with an optional qualifier
IsStructShape(t) == typeClass(t) = "struct" /\ StructMatch(t).matched

StructDecls(t, defs) ==
    {k \in 1 .. Len(defs) :
        /\ defs[k].name = "StructDefinition"
        /\ defs[k].attributes.name = Join(StructMatch(t).m1)}

\* the declaration a struct type string names
StructDeclOf(t, defs) ==
    defs[CHOOSE k \in StructDecls(t, defs) : \A h \in StructDecls(t, defs) : k <= h]

MemberType(dec, i) == dec.children.items[i].attributes.type

\* C1: a type string struct <Name>, with or without a qualifier, whose name
\* no struct declaration of the table carries, makes parseType return the
\* failure value null and never a struct descriptor
C1_UnknownStructFails ==
    (Done /\ IsStructShape(type) /\ StructDecls(type, stateDefinitions) = {})
        => result = null

\* C2: a type string whose classification token is none of the ten
\* categories makes parseType return the failure value null: no descriptor
\* and no abnormal termination
C2_UnrecognizedCategoryReturnsFailure ==
    (Done /\ typeClass(type) \notin decodeInfos) => result = null

\* a failure lies somewhere inside the type string: a class with no builder,
\* a shape its builder rejects, an enum the table lacks, or the element of
\* an array or a member of a declared struct with such a failure (followed
\* through at most fuel levels of nesting)
RECURSIVE HasNestedFailure(_, _, _)
HasNestedFailure(t, defs, fuel) ==
    LET c == typeClass(t)
    IN IF c \notin decodeInfos THEN TRUE
       ELSE IF c = "array"
            THEN \/ ~ArrayMatch(t).matched
                 \/ fuel > 0 /\ HasNestedFailure(ArrayMatch(t).m1, defs, fuel - 1)
       ELSE IF c = "enum"
            THEN \A k \in 1 .. Len(defs) : Join(t) # "enum " \o defs[k].attributes.name
       ELSE IF c = "struct"
            THEN \/ ~StructMatch(t).matched
                 \/ /\ fuel > 0
                    /\ StructDecls(t, defs) # {}
                    /\ \E i \in 1 .. StructDeclOf(t, defs).children.length :
                          HasNestedFailure(MemberType(StructDeclOf(t, defs), i), defs, fuel - 1)
       ELSE FALSE

\* C3: when the element of an array or any member of a struct, at any depth
\* of nesting, fails to resolve, parseType on the enclosing type fails too
\* (it returns null or passes the exception on); a struct descriptor that is
\* returned holds every member of its declaration, never only some
C3_AllOrNothing ==
    Done =>
        /\ HasNestedFailure(type, stateDefinitions, MaxCallDepth) => IsFailure(result)
        /\ (/\ typeClass(type) = "array"
            /\ ArrayMatch(type).matched
            /\ parseType(ArrayMatch(type).m1, stateDefinitions, 2) = null) => result = null
        /\ (/\ IsStructShape(type)
            /\ StructDecls(type, stateDefinitions) # {}
            /\ \E i \in 1 .. StructDeclOf(type, stateDefinitions).children.length :
                  parseType(MemberType(StructDeclOf(type, stateDefinitions), i),
                            stateDefinitions, 2) = null
                  /\ \A j \in 1 .. i - 1 :
                        IsDescriptor(parseType(MemberType(StructDeclOf(type, stateDefinitions), j),
                                               stateDefinitions, 2)))
              => result = null
        /\ (IsDescriptor(result) /\ IsStructShape(type) /\ StructDecls(type, stateDefinitions) # {})
              => Len(result.members) = StructDeclOf(type, stateDefinitions).children.length

\* C3 witness: a declared struct whose first member resolves and whose
\* later member does not has been resolved to null
C3_Witness ==
    /\ Done
    /\ IsStructShape(type)
    /\ StructDecls(type, stateDefinitions) # {}
    /\ StructDeclOf(type, stateDefinitions).children.length >= 2
    /\ IsDescriptor(parseType(MemberType(StructDeclOf(type, stateDefinitions), 1),
                              stateDefinitions, 2))
    /\ parseType(MemberType(StructDeclOf(type, stateDefinitions), 2), stateDefinitions, 2) = null
    /\ result = null

\* the literal size of an array type string is a number
HasLiteralSize(t) == ArrayMatch(t).m2 # <<>> /\ parseInt(ArrayMatch(t).m2) # NaN

\* s = ceil(n / d) for integers n >= 0 and d >= 1
IsCeilOf(s, n, d) == s * d >= n /\ (s - 1) * d < n

\* C4: an array whose element resolves to e has storageBytes 32; with an
\* empty size token it is dynamic and has 1 slot whatever e is; with size n
\* it has ceil(n / floor(32 / e.storageBytes)) slots when e.storageBytes < 32
\* and n * e.storageSlots slots when e.storageBytes >= 32 (bool[3] has 1,
\* uint128[3] has 2, uint256[3] has 3)
C4_ArraySlotLaw ==
    (Done /\ typeClass(type) = "array" /\ ArrayMatch(type).matched) =>
        LET m == ArrayMatch(type)
            e == parseType(m.m1, stateDefinitions, 2)
            n == parseInt(m.m2)
        IN IsDescriptor(e) =>
            /\ IsDescriptor(result)
            /\ result.typeName = "array"
            /\ result.storageBytes = 32
            /\ result.underlyingType = e
            /\ m.m2 = <<>> => result.arraySize = dynamic /\ result.storageSlots = 1
            /\ HasLiteralSize(type) =>
                  /\ result.arraySize = n
                  /\ e.storageBytes \in 1 .. 31 =>
                        IsCeilOf(result.storageSlots, n, 32 \div e.storageBytes)
                  /\ (e.storageBytes >= 32 /\ e.storageSlots # NaN) =>
                        result.storageSlots = n * e.storageSlots
            /\ type = <<"bool", "[", "3", "]">> => result.storageSlots = 1
            /\ type = <<"uint", "128", "[", "3", "]">> => result.storageSlots = 2
            /\ type = <<"uint", "256", "[", "3", "]">> => result.storageSlots = 3

\* C4 witness: a fixed array of three 16-byte elements has been resolved to
\* two slots, and a fixed array of a two-slot struct to twice its size
C4_Witness ==
    /\ Done
    /\ typeClass(type) = "array"
    /\ ArrayMatch(type).matched
    /\ HasLiteralSize(type)
    /\ IsDescriptor(result)
    /\ \/ result.underlyingType.storageBytes = 16 /\ result.arraySize = 3
          /\ result.storageSlots = 2
       \/ result.underlyingType.typeName = "struct" /\ result.underlyingType.storageSlots = 2
          /\ result.arraySize = 2 /\ result.storageSlots = 4

\* the sum of the members' storageBytes, NaN when one of them is NaN
RECURSIVE TotalMemberBytes(_)
TotalMemberBytes(ms) ==
    IF ms = <<>> THEN 0
    ELSE IF Head(ms).storageBytes = NaN \/ TotalMemberBytes(Tail(ms)) = NaN THEN NaN
    ELSE Head(ms).storageBytes + TotalMemberBytes(Tail(ms))

\* C5: a declared struct all of whose members resolve gets a descriptor that
\* lists the member descriptors in declaration order, has storageBytes 32
\* and has ceil(S / 32) slots, S the sum of the members' storageBytes (two
\* uint128 members give 1 slot, three give 2)
C5_StructSlotLaw ==
    (Done /\ IsStructShape(type) /\ StructDecls(type, stateDefinitions) # {}) =>
        LET dec == StructDeclOf(type, stateDefinitions)
            ms == [i \in 1 .. dec.children.length |->
                      parseType(MemberType(dec, i), stateDefinitions, 2)]
            S == TotalMemberBytes(ms)
        IN (\A i \in 1 .. dec.children.length : IsDescriptor(ms[i])) =>
            /\ IsDescriptor(result)
            /\ result.typeName = "struct"
            /\ result.members = ms
            /\ result.storageBytes = 32
            /\ S # NaN => IsCeilOf(result.storageSlots, S, 32)
            /\ S = NaN => result.storageSlots = NaN
            /\ (\A i \in 1 .. Len(ms) : ms[i].typeName = "uint" /\ ms[i].storageBytes = 16) =>
                  /\ Len(ms) = 2 => result.storageSlots = 1
                  /\ Len(ms) = 3 => result.storageSlots = 2

\* C5 witness: a struct of three uint128 members has been resolved to a
\* descriptor of three members and two slots
C5_Witness ==
    /\ Done
    /\ IsStructShape(type)
    /\ IsDescriptor(result)
    /\ Len(result.members) = 3
    /\ \A i \in 1 .. 3 : result.members[i].typeName = "uint" /\ result.members[i].storageBytes = 16
    /\ result.storageSlots = 2

\* C6: every descriptor parseType returns, for any type string of the
\* grammar (fixed arrays of size 0 included) and any symbol table, has at
\* least one storage slot
C6_SlotsAtLeastOne ==
    (Done /\ IsDescriptor(result)) => result.storageSlots >= 1

RECURSIVE Pow256(_)
Pow256(k) == IF k = 0 THEN 1 ELSE 256 * Pow256(k - 1)

EnumDecls(t, defs) ==
    {k \in 1 .. Len(defs) :
        /\ defs[k].name = "EnumDefinition"
        /\ Join(t) = "enum " \o defs[k].attributes.name}

\* C7: enum <Name> declared with n values gets 1 slot and as many bytes as n
\* can be divided by 256 while the running value exceeds 1: for n >= 2 the
\* least k >= 1 with 256^k >= n, and 0 for n = 1 (3 and 256 values give 1
\* byte, 257 and 300 values give 2)
C7_EnumWidthLaw ==
    (Done /\ EnumDecls(type, stateDefinitions) # {}) =>
        LET dec == stateDefinitions[CHOOSE k \in EnumDecls(type, stateDefinitions) : TRUE]
            n == dec.children.length
        IN /\ IsDescriptor(result)
           /\ result.typeName = "enum"
           /\ result.storageSlots = 1
           /\ result.enum = dec
           /\ n <= 1 => result.storageBytes = 0
           /\ n >= 2 => /\ result.storageBytes >= 1
                        /\ Pow256(result.storageBytes) >= n
                        /\ Pow256(result.storageBytes - 1) < n
           /\ n \in {3, 256} => result.storageBytes = 1
           /\ n \in {257, 300} => result.storageBytes = 2

\* C7 witness: an enum of 257 values has been resolved to two bytes
C7_Witness ==
    /\ Done
    /\ EnumDecls(type, stateDefinitions) # {}
    /\ IsDescriptor(result)
    /\ result.enum.children.length = 257
    /\ result.storageBytes = 2

ScalarNames == {"address", "bool", "uint", "int", "bytesX", "bytes", "string"}

\* C8: every scalar descriptor parseType returns for a type string of the
\* grammar, the bare keywords uint and int included, has a storageBytes that
\* is an integer from 1 to 32
C8_ScalarBytesInRange ==
    (Done /\ IsDescriptor(result) /\ result.typeName \in ScalarNames)
        => result.storageBytes \in 1 .. 32

\* C9 as stated: every type string that contains "[" is classified as array,
\* and one whose shape is not the array pattern is rejected by the array
\* builder, which returns null
C9_OpenBracketIsArray ==
    (Done /\ HasBracket(type, "[")) =>
        /\ typeClass(type) = "array"
        /\ ~ArrayMatch(type).matched => result = null

\* C9 amended: every type string that contains "]" is classified as array,
\* whatever precedes or follows the bracket, and one whose shape is not the
\* array pattern is rejected by the array builder, which returns null
C9_CloseBracketIsArray ==
    (Done /\ HasBracket(type, "]")) =>
        /\ typeClass(type) = "array"
        /\ ~ArrayMatch(type).matched => result = null
        /\ ArrayMatch(type).matched =>
              \/ IsDescriptor(result) /\ result.typeName = "array"
              \/ result = parseType(ArrayMatch(type).m1, stateDefinitions, 2)

\* C9 witness: a string with a closing bracket and no array shape, here one
\* with an enum prefix or no opening bracket, has been rejected with null
C9_Witness ==
    /\ Done
    /\ HasBracket(type, "]")
    /\ ~HasBracket(type, "[")
    /\ ~ArrayMatch(type).matched
    /\ result = null

\* C10: parseType ends by returning a descriptor or a failure on every
\* finite symbol table, one whose struct contains itself included: the
\* recursion is cut off before the call stack is exhausted
C10_RecursionIsCutOff ==
    Done => result # RangeError

=============================================================================
